---- MODULE Spec2Model ----
(***************************************************************************)
(* Model of monitorDeliveryWorkflow (worker/src/workflows), the per-       *)
(* delivery monitoring loop: signal handlers, the anti-spam notification   *)
(* policy, idempotency keys and the snooze / base-interval sleeps.         *)
(*                                                                         *)
(* The workflow is one logical thread.  It suspends at every await (the    *)
(* two sleeps and the three activity calls); signal handlers run to        *)
(* completion while it is suspended.  pc names the await the workflow is   *)
(* suspended at.                                                           *)
(***************************************************************************)
EXTENDS Integers, Sequences, FiniteSets, TLC

\* ---------------------------------------------------------------- bounds
\* notifications one instance may issue in a checked run
MaxSeq == 3
\* largest amount of time one Tick step lets pass, in ms
TickMs == 900000

\* ------------------------------------------------------- input domains
\* valid thresholdMinutes / notifyDeltaMinutes (int > 0); 40 is a delta above
\* both thresholds
Thresholds == {30, 38}
Deltas == {10, 40}
\* start requests that are not valid: a negative delta and a malformed
\* recipientEmail (emailOk stands for the address being well-formed)
InvalidRequests ==
    { [thresholdMinutes |-> 30, notifyDeltaMinutes |-> -10, emailOk |-> TRUE],
      [thresholdMinutes |-> 30, notifyDeltaMinutes |-> 10, emailOk |-> FALSE] }
\* what a caller may ask a start path to start
StartRequests ==
    [thresholdMinutes : Thresholds, notifyDeltaMinutes : Deltas, emailOk : {TRUE}]
        \cup InvalidRequests
\* delayMinutes values the traffic activity may return (>= 0)
Delays == {20, 35, 38, 50}
\* snooze(minutes) arguments, in tenths of a minute so that floor() has
\* something to do: -1.5, 0.4 and 5 minutes
SnoozeTenths == {-15, 4, 50}
DeliveryId == "demo"

\* ---------------------------------------------------- program constants
\* let snoozeSleepMs: number | null = null
Null == -1
\* const baseMs = 30 * 60 * 1000
BaseMs == 30 * 60 * 1000

VARIABLES
    args,                          \* MonitorArgs: thresholdMinutes, notifyDeltaMinutes, recipientEmail
    highestNotifiedDelayMinutes,
    notificationSequence,
    hasNotifiedOverThreshold,
    snoozeSleepMs,
    shouldCheckNow,
    pc,                            \* await the workflow is suspended at
    delay,                         \* const delay = traffic.delayMinutes (this cycle)
    idempotencyKey,                \* key of the dispatch in flight / last made
    sleepLeft,                     \* ms left of the timer the workflow sleeps on
    \* ---- observers (never read by the workflow) ----
    sent,                          \* log of notifications sendNotificationEmail delivered
    escInCycle,                    \* escalations sent in the current / last cycle
    clearInCycle,                  \* all-clears sent in the current / last cycle
    evalWatermark,                 \* highestNotifiedDelayMinutes when line 122 was evaluated
    evalHasNotified,               \* hasNotifiedOverThreshold when line 133 was evaluated
    restartedSinceEsc,             \* routeRestarted applied since the last escalation commit
    resetFrom,                     \* watermark a routeRestarted wiped, 0 once a send commits
    evalResetFrom,                 \* resetFrom when line 122 was evaluated
    checkNowPending,               \* checkNow delivered, no traffic fetch started since
    scenA,                         \* progress along Scenario A, -1 when off it
    scenB,                         \* 0 / 1 snooze(5) in this idle window / 2 then checkNow / 3 slept a cycle later
    failedAt,                      \* the await whose rejection ended the workflow, "" if none
    lastSnoozeTenths,              \* argument of the last snooze signal still pending, else 0
    restartedSinceEval,            \* routeRestarted applied since line 122 last ran
    allBelow,                      \* every fetch so far returned a delay below the threshold
    firstCross,                    \* the last fetch was the first one at or above the threshold
    dispatched,                    \* calls of sendNotificationEmail the workflow has made
    retried                        \* the host has re-run the dispatch in flight

state == <<args, highestNotifiedDelayMinutes, notificationSequence,
           hasNotifiedOverThreshold, snoozeSleepMs, shouldCheckNow, pc, delay,
           idempotencyKey, sleepLeft>>
observers == <<sent, escInCycle, clearInCycle, evalWatermark, evalHasNotified,
               restartedSinceEsc, resetFrom, evalResetFrom, checkNowPending,
               scenA, scenB, failedAt>>
observers2 == <<lastSnoozeTenths, restartedSinceEval, allBelow, firstCross>>
dispatchObs == <<dispatched, retried>>
vars == <<state, observers, observers2, dispatchObs>>

Min(a, b) == IF a < b THEN a ELSE b
Max(a, b) == IF a > b THEN a ELSE b

\* Math.floor(minutes), minutes given in tenths
Floor(tenths) == tenths \div 10

\* mutant: the result is not clamped at 0
SnoozeMsNoClamp(tenths) == Floor(tenths) * 60000

\* const ms = Math.max(0, Math.floor(minutes) * 60_000)
SnoozeMs(tenths) == Max(0, Floor(tenths) * 60000)

\* `${args.deliveryId}-${notificationSequence}`
KeyOf(n) == <<DeliveryId, n>>

\* mutant: the threshold is not looked at
EscalateCondNoThreshold(d, highest) == d >= highest + args.notifyDeltaMinutes

\* mutant: the anti-spam gate is dropped
EscalateCondThresholdOnly(d, highest) == d >= args.thresholdMinutes

\* mutant: the delay is compared with the watermark alone
EscalateCondNoDelta(d, highest) ==
    /\ d >= args.thresholdMinutes
    /\ d >= highest

\* delay >= args.thresholdMinutes && delay >= highestNotifiedDelayMinutes + args.notifyDeltaMinutes
EscalateCond(d, highest) ==
    /\ d >= args.thresholdMinutes
    /\ d >= highest + args.notifyDeltaMinutes

\* mutant: the all-clear does not look at hasNotifiedOverThreshold
ClearCondNoFlag(d, notified) == d < args.thresholdMinutes

\* mutant: the all-clear does not look at the delay
ClearCondNoDelay(d, notified) == notified

\* hasNotifiedOverThreshold && delay < args.thresholdMinutes
ClearCond(d, notified) == notified /\ d < args.thresholdMinutes

ScenarioA == <<35, 38, 50, 20>>

\* z.object({ recipientEmail: z.string().email(),
\*            thresholdMinutes: z.number().int().positive(),
\*            notifyDeltaMinutes: z.number().int().positive() }).parse(body)
SchemaAccepts(r) ==
    /\ r.emailOk
    /\ r.thresholdMinutes > 0
    /\ r.notifyDeltaMinutes > 0

Init ==
    /\ args \in StartRequests
    /\ highestNotifiedDelayMinutes = 0
    /\ notificationSequence = 0
    /\ hasNotifiedOverThreshold = FALSE
    /\ snoozeSleepMs = Null
    /\ shouldCheckNow = FALSE
    /\ pc = "notStarted"
    /\ delay = 0
    /\ idempotencyKey = KeyOf(0)
    /\ sleepLeft = 0
    /\ sent = << >>
    /\ escInCycle = 0
    /\ clearInCycle = 0
    /\ evalWatermark = 0
    /\ evalHasNotified = FALSE
    /\ restartedSinceEsc = FALSE
    /\ resetFrom = 0
    /\ evalResetFrom = 0
    /\ checkNowPending = FALSE
    /\ scenA = 0
    /\ scenB = 0
    /\ failedAt = ""
    /\ lastSnoozeTenths = 0
    /\ restartedSinceEval = FALSE
    /\ allBelow = TRUE
    /\ firstCross = FALSE
    /\ dispatched = 0
    /\ retried = FALSE

\* POST /workflows/start: the body is parsed against the schema; a body it
\* refuses is answered 503 and nothing is started
StartHttp ==
    /\ pc = "notStarted"
    /\ pc' = IF SchemaAccepts(args) THEN "start" ELSE "rejected"
    /\ UNCHANGED <<args, highestNotifiedDelayMinutes, notificationSequence,
                   hasNotifiedOverThreshold, snoozeSleepMs, shouldCheckNow, delay,
                   idempotencyKey, sleepLeft>>
    /\ UNCHANGED observers
    /\ UNCHANGED observers2
    /\ UNCHANGED dispatchObs

\* CLI start script: argv and env go to client.workflow.start as they are
StartCli ==
    /\ pc = "notStarted"
    /\ pc' = "start"
    /\ UNCHANGED <<args, highestNotifiedDelayMinutes, notificationSequence,
                   hasNotifiedOverThreshold, snoozeSleepMs, shouldCheckNow, delay,
                   idempotencyKey, sleepLeft>>
    /\ UNCHANGED observers
    /\ UNCHANGED observers2
    /\ UNCHANGED dispatchObs

\* seed script: fixed well-formed addresses, thresholds from env as they are
StartSeed ==
    /\ pc = "notStarted"
    /\ args' = [args EXCEPT !.emailOk = TRUE]
    /\ pc' = "start"
    /\ UNCHANGED <<highestNotifiedDelayMinutes, notificationSequence,
                   hasNotifiedOverThreshold, snoozeSleepMs, shouldCheckNow, delay,
                   idempotencyKey, sleepLeft>>
    /\ UNCHANGED observers
    /\ UNCHANGED observers2
    /\ UNCHANGED dispatchObs

Running == pc \in {"start", "sleepSnooze", "fetch", "generate", "sendEsc", "sendClear", "sleepBase"}

\* ------------------------------------------------------ signal handlers
\* the variables the handlers' closures can write
SignalFields ==
    [snoozeSleepMs |-> snoozeSleepMs,
     highestNotifiedDelayMinutes |-> highestNotifiedDelayMinutes,
     shouldCheckNow |-> shouldCheckNow]

\* (minutes) => { const ms = ...; snoozeSleepMs = ms; }
OnSnooze(f, tenths) == [f EXCEPT !.snoozeSleepMs = SnoozeMs(tenths)]

\* mutant: a restarted route also drops the pending snooze
OnRouteRestartedClearsSnooze(f) ==
    [f EXCEPT !.highestNotifiedDelayMinutes = 0, !.snoozeSleepMs = Null]

\* () => { highestNotifiedDelayMinutes = 0; }
OnRouteRestarted(f) == [f EXCEPT !.highestNotifiedDelayMinutes = 0]

\* mutant: checkNow also drops the pending snooze
OnCheckNowClearsSnooze(f) == [f EXCEPT !.shouldCheckNow = TRUE, !.snoozeSleepMs = Null]

\* () => { shouldCheckNow = true; }
OnCheckNow(f) == [f EXCEPT !.shouldCheckNow = TRUE]

\* the signals a client may send
Signals ==
    { [name |-> "snooze", tenths |-> t] : t \in SnoozeTenths }
        \cup { [name |-> "routeRestarted", tenths |-> 0], [name |-> "checkNow", tenths |-> 0] }

\* the handler wf.setHandler attached for the signal, run on fields f
Handle(f, sig) ==
    CASE sig.name = "snooze" -> OnSnooze(f, sig.tenths)
      [] sig.name = "routeRestarted" -> OnRouteRestarted(f)
      [] sig.name = "checkNow" -> OnCheckNow(f)

\* the fields after a handler ran
FieldsBecome(g) ==
    /\ snoozeSleepMs' = g.snoozeSleepMs
    /\ highestNotifiedDelayMinutes' = g.highestNotifiedDelayMinutes
    /\ shouldCheckNow' = g.shouldCheckNow

\* wf.setHandler(snooze, ...)
Snooze(tenths) ==
    /\ Running
    /\ FieldsBecome(OnSnooze(SignalFields, tenths))
    /\ scenA' = -1
    /\ scenB' = IF pc = "sleepBase" /\ tenths = 50 THEN 1 ELSE 0
    /\ UNCHANGED <<args, notificationSequence, hasNotifiedOverThreshold, pc, delay,
                   idempotencyKey, sleepLeft>>
    /\ UNCHANGED <<sent, escInCycle, clearInCycle, evalWatermark, evalHasNotified,
                   restartedSinceEsc, resetFrom, evalResetFrom, checkNowPending, failedAt>>
    /\ lastSnoozeTenths' = tenths
    /\ UNCHANGED <<restartedSinceEval, allBelow, firstCross>>
    /\ UNCHANGED dispatchObs

\* mutant: the handler leaves the watermark alone
RouteRestartedNoReset ==
    /\ Running
    /\ highestNotifiedDelayMinutes' = highestNotifiedDelayMinutes
    /\ restartedSinceEsc' = TRUE
    /\ resetFrom' = IF highestNotifiedDelayMinutes > 0
                    THEN highestNotifiedDelayMinutes ELSE resetFrom
    /\ scenA' = -1
    /\ UNCHANGED <<args, notificationSequence, hasNotifiedOverThreshold,
                   snoozeSleepMs, shouldCheckNow, pc, delay, idempotencyKey, sleepLeft>>
    /\ UNCHANGED <<sent, escInCycle, clearInCycle, evalWatermark, evalHasNotified,
                   evalResetFrom, checkNowPending, scenB, failedAt>>
    /\ restartedSinceEval' = TRUE
    /\ UNCHANGED <<lastSnoozeTenths, allBelow, firstCross>>
    /\ UNCHANGED dispatchObs

\* wf.setHandler(routeRestarted, ...)
RouteRestarted ==
    /\ Running
    /\ FieldsBecome(OnRouteRestarted(SignalFields))
    /\ restartedSinceEsc' = TRUE
    /\ resetFrom' = IF highestNotifiedDelayMinutes > 0
                    THEN highestNotifiedDelayMinutes ELSE resetFrom
    /\ scenA' = -1
    /\ UNCHANGED <<args, notificationSequence, hasNotifiedOverThreshold,
                   pc, delay, idempotencyKey, sleepLeft>>
    /\ UNCHANGED <<sent, escInCycle, clearInCycle, evalWatermark, evalHasNotified,
                   evalResetFrom, checkNowPending, scenB, failedAt>>
    /\ restartedSinceEval' = TRUE
    /\ UNCHANGED <<lastSnoozeTenths, allBelow, firstCross>>
    /\ UNCHANGED dispatchObs

\* wf.setHandler(checkNow, ...)
CheckNow ==
    /\ Running
    /\ FieldsBecome(OnCheckNow(SignalFields))
    /\ checkNowPending' = TRUE
    /\ scenA' = -1
    /\ scenB' = IF pc = "sleepBase" /\ scenB = 1 /\ snoozeSleepMs = SnoozeMs(50)
                THEN 2 ELSE scenB
    /\ UNCHANGED <<args, notificationSequence, hasNotifiedOverThreshold, pc, delay,
                   idempotencyKey, sleepLeft>>
    /\ UNCHANGED <<sent, escInCycle, clearInCycle, evalWatermark, evalHasNotified,
                   restartedSinceEsc, resetFrom, evalResetFrom, failedAt>>
    /\ UNCHANGED observers2
    /\ UNCHANGED dispatchObs

\* ------------------------------------------------------------ the loop
\* mutant: a snooze skipped because of checkNow is dropped
LoopHeadDropsSkippedSnooze ==
    /\ IF snoozeSleepMs # Null /\ ~shouldCheckNow
       THEN /\ snoozeSleepMs' = Null
            /\ sleepLeft' = snoozeSleepMs
            /\ pc' = "sleepSnooze"
            /\ checkNowPending' = checkNowPending
            /\ scenB' = IF scenB = 2 THEN 3 ELSE 0
       ELSE /\ snoozeSleepMs' = Null
            /\ sleepLeft' = 0
            /\ pc' = "fetch"
            /\ checkNowPending' = FALSE
            /\ scenB' = IF scenB = 2 THEN 2 ELSE 0
    /\ escInCycle' = 0
    /\ clearInCycle' = 0
    /\ UNCHANGED <<args, highestNotifiedDelayMinutes, notificationSequence,
                   hasNotifiedOverThreshold, shouldCheckNow, delay, idempotencyKey>>
    /\ UNCHANGED <<sent, evalWatermark, evalHasNotified, restartedSinceEsc,
                   resetFrom, evalResetFrom, scenA, failedAt>>
    /\ lastSnoozeTenths' = IF snoozeSleepMs' = Null THEN 0 ELSE lastSnoozeTenths
    /\ UNCHANGED <<restartedSinceEval, allBelow, firstCross>>
    /\ UNCHANGED dispatchObs

\* while (true) { if (snoozeSleepMs !== null && !shouldCheckNow) {...}
\*                const traffic = await fetchTrafficConditions(...)
LoopHead ==
    /\ IF snoozeSleepMs # Null /\ ~shouldCheckNow
       THEN /\ snoozeSleepMs' = Null
            /\ sleepLeft' = snoozeSleepMs
            /\ pc' = "sleepSnooze"
            /\ checkNowPending' = checkNowPending
            /\ scenB' = IF scenB = 2 THEN 3 ELSE 0
       ELSE /\ snoozeSleepMs' = snoozeSleepMs
            /\ sleepLeft' = 0
            /\ pc' = "fetch"
            /\ checkNowPending' = FALSE
            /\ scenB' = IF scenB = 2 THEN 2 ELSE 0
    /\ escInCycle' = 0
    /\ clearInCycle' = 0
    /\ UNCHANGED <<args, highestNotifiedDelayMinutes, notificationSequence,
                   hasNotifiedOverThreshold, shouldCheckNow, delay, idempotencyKey>>
    /\ UNCHANGED <<sent, evalWatermark, evalHasNotified, restartedSinceEsc,
                   resetFrom, evalResetFrom, scenA, failedAt>>
    /\ lastSnoozeTenths' = IF snoozeSleepMs' = Null THEN 0 ELSE lastSnoozeTenths
    /\ UNCHANGED <<restartedSinceEval, allBelow, firstCross>>
    /\ UNCHANGED dispatchObs

\* first entry of the loop, after the handlers are attached
WorkflowStart ==
    /\ pc = "start"
    /\ LoopHead

\* time passes while the workflow is suspended in wf.sleep
Tick ==
    /\ pc \in {"sleepSnooze", "sleepBase"}
    /\ sleepLeft > 0
    /\ sleepLeft' = sleepLeft - Min(TickMs, sleepLeft)
    /\ UNCHANGED <<args, highestNotifiedDelayMinutes, notificationSequence,
                   hasNotifiedOverThreshold, snoozeSleepMs, shouldCheckNow, pc,
                   delay, idempotencyKey>>
    /\ UNCHANGED observers
    /\ UNCHANGED observers2
    /\ UNCHANGED dispatchObs

\* await wf.sleep(ms) of the snooze resolves
SnoozeTimerFires ==
    /\ pc = "sleepSnooze"
    /\ sleepLeft = 0
    /\ pc' = "fetch"
    /\ checkNowPending' = FALSE
    /\ scenB' = 0
    /\ UNCHANGED <<args, highestNotifiedDelayMinutes, notificationSequence,
                   hasNotifiedOverThreshold, snoozeSleepMs, shouldCheckNow,
                   delay, idempotencyKey, sleepLeft>>
    /\ UNCHANGED <<sent, escInCycle, clearInCycle, evalWatermark, evalHasNotified,
                   restartedSinceEsc, resetFrom, evalResetFrom, scenA, failedAt>>
    /\ UNCHANGED observers2
    /\ UNCHANGED dispatchObs

\* await wf.sleep(baseMs) resolves; the loop goes round
BaseTimerFires ==
    /\ pc = "sleepBase"
    /\ sleepLeft = 0
    /\ LoopHead

\* if (shouldCheckNow) shouldCheckNow = false; await wf.sleep(baseMs)
EndOfCycle ==
    /\ shouldCheckNow' = FALSE
    /\ sleepLeft' = BaseMs
    /\ pc' = "sleepBase"

\* if (hasNotifiedOverThreshold && delay < args.thresholdMinutes) { ... } else the cycle ends
ClearBranch(d, notified, seq) ==
    /\ evalHasNotified' = notified
    /\ IF ClearCond(d, notified)
       THEN /\ notificationSequence' = seq + 1
            /\ idempotencyKey' = KeyOf(seq + 1)
            /\ pc' = "sendClear"
            /\ dispatched' = dispatched + 1
            /\ UNCHANGED <<shouldCheckNow, sleepLeft>>
       ELSE /\ notificationSequence' = seq
            /\ UNCHANGED <<idempotencyKey, dispatched>>
            /\ EndOfCycle
    /\ retried' = FALSE

\* next step of the Scenario A observer after a fetch returning d
NextScenA(d) ==
    IF scenA >= 0 /\ scenA < Len(ScenarioA) /\ d = ScenarioA[scenA + 1]
       /\ args.thresholdMinutes = 30 /\ args.notifyDeltaMinutes = 10
    THEN scenA + 1 ELSE -1

\* fetchTrafficConditions resolves with delayMinutes = d; lines 120-122 and,
\* when no escalation is due, 133-152
FetchCompletes(d) ==
    /\ pc = "fetch"
    /\ (EscalateCond(d, highestNotifiedDelayMinutes) \/ ClearCond(d, hasNotifiedOverThreshold))
          => notificationSequence < MaxSeq
    /\ delay' = d
    /\ evalWatermark' = highestNotifiedDelayMinutes
    /\ evalResetFrom' = resetFrom
    /\ scenA' = NextScenA(d)
    /\ IF EscalateCond(d, highestNotifiedDelayMinutes)
       THEN /\ pc' = "generate"
            /\ UNCHANGED <<notificationSequence, idempotencyKey, shouldCheckNow,
                           sleepLeft, evalHasNotified>>
            /\ UNCHANGED dispatchObs
       ELSE ClearBranch(d, hasNotifiedOverThreshold, notificationSequence)
    /\ UNCHANGED <<args, highestNotifiedDelayMinutes, hasNotifiedOverThreshold, snoozeSleepMs>>
    /\ UNCHANGED <<sent, escInCycle, clearInCycle, restartedSinceEsc, resetFrom,
                   checkNowPending, scenB, failedAt>>
    /\ restartedSinceEval' = FALSE
    /\ allBelow' = (allBelow /\ d < args.thresholdMinutes)
    /\ firstCross' = (allBelow /\ d >= args.thresholdMinutes)
    /\ UNCHANGED lastSnoozeTenths

\* mutant: the watermark and the flag are committed before the dispatch
GenerateCompletesCommitsEarly ==
    /\ pc = "generate"
    /\ notificationSequence' = notificationSequence + 1
    /\ idempotencyKey' = KeyOf(notificationSequence + 1)
    /\ pc' = "sendEsc"
    /\ highestNotifiedDelayMinutes' = delay
    /\ hasNotifiedOverThreshold' = TRUE
    /\ UNCHANGED <<args, snoozeSleepMs, shouldCheckNow, delay, sleepLeft>>
    /\ UNCHANGED observers
    /\ UNCHANGED observers2
    /\ dispatched' = dispatched + 1
    /\ retried' = FALSE

\* mutant: the key is built before notificationSequence is incremented
GenerateCompletesStaleKey ==
    /\ pc = "generate"
    /\ notificationSequence' = notificationSequence + 1
    /\ idempotencyKey' = KeyOf(notificationSequence)
    /\ pc' = "sendEsc"
    /\ UNCHANGED <<args, highestNotifiedDelayMinutes, hasNotifiedOverThreshold,
                   snoozeSleepMs, shouldCheckNow, delay, sleepLeft>>
    /\ UNCHANGED observers
    /\ UNCHANGED observers2
    /\ dispatched' = dispatched + 1
    /\ retried' = FALSE

\* generateDelayMessage resolves; notificationSequence += 1; the key is built
\* and sendNotificationEmail is called
GenerateCompletes ==
    /\ pc = "generate"
    /\ notificationSequence' = notificationSequence + 1
    /\ idempotencyKey' = KeyOf(notificationSequence + 1)
    /\ pc' = "sendEsc"
    /\ UNCHANGED <<args, highestNotifiedDelayMinutes, hasNotifiedOverThreshold,
                   snoozeSleepMs, shouldCheckNow, delay, sleepLeft>>
    /\ UNCHANGED observers
    /\ UNCHANGED observers2
    /\ dispatched' = dispatched + 1
    /\ retried' = FALSE

\* mutant: the escalation does not set hasNotifiedOverThreshold
SendEscalationCompletesNoFlag ==
    /\ pc = "sendEsc"
    /\ sent' = Append(sent, [kind |-> "escalation", delay |-> delay,
                             key |-> idempotencyKey, restarted |-> restartedSinceEsc])
    /\ escInCycle' = escInCycle + 1
    /\ restartedSinceEsc' = FALSE
    /\ resetFrom' = 0
    /\ highestNotifiedDelayMinutes' = delay
    /\ hasNotifiedOverThreshold' = hasNotifiedOverThreshold
    /\ ClearBranch(delay, hasNotifiedOverThreshold, notificationSequence)
    /\ UNCHANGED <<args, snoozeSleepMs, delay>>
    /\ UNCHANGED <<clearInCycle, evalWatermark, evalResetFrom, checkNowPending,
                   scenA, scenB, failedAt>>
    /\ UNCHANGED observers2

\* mutant: the escalation does not commit the watermark
SendEscalationCompletesNoWatermark ==
    /\ pc = "sendEsc"
    /\ sent' = Append(sent, [kind |-> "escalation", delay |-> delay,
                             key |-> idempotencyKey, restarted |-> restartedSinceEsc])
    /\ escInCycle' = escInCycle + 1
    /\ restartedSinceEsc' = FALSE
    /\ resetFrom' = 0
    /\ hasNotifiedOverThreshold' = TRUE
    /\ ClearBranch(delay, TRUE, notificationSequence)
    /\ UNCHANGED <<args, snoozeSleepMs, delay, highestNotifiedDelayMinutes>>
    /\ UNCHANGED <<clearInCycle, evalWatermark, evalResetFrom, checkNowPending,
                   scenA, scenB, failedAt>>
    /\ UNCHANGED observers2

\* sendNotificationEmail of the escalation resolves; lines 128-129, then 133-152
SendEscalationCompletes ==
    /\ pc = "sendEsc"
    /\ sent' = Append(sent, [kind |-> "escalation", delay |-> delay,
                             key |-> idempotencyKey, restarted |-> restartedSinceEsc])
    /\ escInCycle' = escInCycle + 1
    /\ restartedSinceEsc' = FALSE
    /\ resetFrom' = 0
    /\ highestNotifiedDelayMinutes' = delay
    /\ hasNotifiedOverThreshold' = TRUE
    /\ ClearBranch(delay, TRUE, notificationSequence)
    /\ UNCHANGED <<args, snoozeSleepMs, delay>>
    /\ UNCHANGED <<clearInCycle, evalWatermark, evalResetFrom, checkNowPending,
                   scenA, scenB, failedAt>>
    /\ UNCHANGED observers2

\* mutant: the all-clear leaves the watermark where it was
SendClearCompletesKeepsWatermark ==
    /\ pc = "sendClear"
    /\ sent' = Append(sent, [kind |-> "clear", delay |-> delay,
                             key |-> idempotencyKey, restarted |-> restartedSinceEsc])
    /\ clearInCycle' = clearInCycle + 1
    /\ resetFrom' = 0
    /\ hasNotifiedOverThreshold' = FALSE
    /\ EndOfCycle
    /\ UNCHANGED <<args, notificationSequence, snoozeSleepMs, delay, idempotencyKey,
                   highestNotifiedDelayMinutes>>
    /\ UNCHANGED <<escInCycle, evalWatermark, evalHasNotified, restartedSinceEsc,
                   evalResetFrom, checkNowPending, scenA, scenB, failedAt>>
    /\ UNCHANGED observers2
    /\ dispatched' = dispatched
    /\ retried' = FALSE

\* mutant: the all-clear leaves hasNotifiedOverThreshold set
SendClearCompletesKeepsFlag ==
    /\ pc = "sendClear"
    /\ sent' = Append(sent, [kind |-> "clear", delay |-> delay,
                             key |-> idempotencyKey, restarted |-> restartedSinceEsc])
    /\ clearInCycle' = clearInCycle + 1
    /\ resetFrom' = 0
    /\ highestNotifiedDelayMinutes' = 0
    /\ EndOfCycle
    /\ UNCHANGED <<args, notificationSequence, snoozeSleepMs, delay, idempotencyKey,
                   hasNotifiedOverThreshold>>
    /\ UNCHANGED <<escInCycle, evalWatermark, evalHasNotified, restartedSinceEsc,
                   evalResetFrom, checkNowPending, scenA, scenB, failedAt>>
    /\ UNCHANGED observers2
    /\ dispatched' = dispatched
    /\ retried' = FALSE

\* sendNotificationEmail of the all-clear resolves; lines 140-152
SendClearCompletes ==
    /\ pc = "sendClear"
    /\ sent' = Append(sent, [kind |-> "clear", delay |-> delay,
                             key |-> idempotencyKey, restarted |-> restartedSinceEsc])
    /\ clearInCycle' = clearInCycle + 1
    /\ resetFrom' = 0
    /\ hasNotifiedOverThreshold' = FALSE
    /\ highestNotifiedDelayMinutes' = 0
    /\ EndOfCycle
    /\ UNCHANGED <<args, notificationSequence, snoozeSleepMs, delay, idempotencyKey>>
    /\ UNCHANGED <<escInCycle, evalWatermark, evalHasNotified, restartedSinceEsc,
                   evalResetFrom, checkNowPending, scenA, scenB, failedAt>>
    /\ UNCHANGED observers2
    /\ dispatched' = dispatched
    /\ retried' = FALSE

\* mutant: a failed dispatch gives its sequence number back
ActivityFailsRollsBack ==
    /\ pc \in {"fetch", "sendEsc", "sendClear"}
    /\ pc' = "failed"
    /\ failedAt' = pc
    /\ notificationSequence' = IF pc = "fetch" THEN notificationSequence
                               ELSE notificationSequence - 1
    /\ UNCHANGED <<args, highestNotifiedDelayMinutes,
                   hasNotifiedOverThreshold, snoozeSleepMs, shouldCheckNow, delay,
                   idempotencyKey, sleepLeft>>
    /\ UNCHANGED <<sent, escInCycle, clearInCycle, evalWatermark, evalHasNotified,
                   restartedSinceEsc, resetFrom, evalResetFrom, checkNowPending,
                   scenA, scenB>>
    /\ UNCHANGED observers2
    /\ UNCHANGED dispatchObs

\* an activity's failure reaches the workflow: the await at line 119, 127 or
\* 138 rejects, nothing catches it, monitorDeliveryWorkflow rejects.
\* (generateDelayMessage catches its own errors and returns the fallback.)
ActivityFails ==
    /\ pc \in {"fetch", "sendEsc", "sendClear"}
    /\ pc' = "failed"
    /\ failedAt' = pc
    /\ UNCHANGED <<args, highestNotifiedDelayMinutes, notificationSequence,
                   hasNotifiedOverThreshold, snoozeSleepMs, shouldCheckNow, delay,
                   idempotencyKey, sleepLeft>>
    /\ UNCHANGED <<sent, escInCycle, clearInCycle, evalWatermark, evalHasNotified,
                   restartedSinceEsc, resetFrom, evalResetFrom, checkNowPending,
                   scenA, scenB>>
    /\ UNCHANGED observers2
    /\ UNCHANGED dispatchObs

\* an attempt of sendNotificationEmail fails and the host runs the activity
\* again: the call and its arguments are those the workflow made at line 127
\* or 138, the workflow stays suspended at its await
SendRetried ==
    /\ pc \in {"sendEsc", "sendClear"}
    /\ retried' = TRUE
    /\ UNCHANGED dispatched
    /\ UNCHANGED state
    /\ UNCHANGED observers
    /\ UNCHANGED observers2

\* POST /workflows/:id/cancel: handle.cancel(); the await the workflow is
\* suspended at rejects with the cancellation, nothing catches it, the
\* workflow ends cancelled
Cancel ==
    /\ Running
    /\ pc' = "cancelled"
    /\ UNCHANGED <<args, highestNotifiedDelayMinutes, notificationSequence,
                   hasNotifiedOverThreshold, snoozeSleepMs, shouldCheckNow, delay,
                   idempotencyKey, sleepLeft>>
    /\ UNCHANGED observers
    /\ UNCHANGED observers2
    /\ UNCHANGED dispatchObs

Next ==
    \/ StartHttp
    \/ StartCli
    \/ StartSeed
    \/ ActivityFails
    \/ SendRetried
    \/ Cancel
    \/ \E t \in SnoozeTenths : Snooze(t)
    \/ RouteRestarted
    \/ CheckNow
    \/ WorkflowStart
    \/ Tick
    \/ SnoozeTimerFires
    \/ BaseTimerFires
    \/ \E d \in Delays : FetchCompletes(d)
    \/ GenerateCompletes
    \/ SendEscalationCompletes
    \/ SendClearCompletes

Spec == Init /\ [][Next]_vars

\* ------------------------------------------------------------ notions
Threshold == args.thresholdMinutes
Delta == args.notifyDeltaMinutes
\* the cycle has run to its end and the loop is in the base sleep
CycleDone == pc = "sleepBase"
IsEsc(i) == sent[i].kind = "escalation"
IsClear(i) == sent[i].kind = "clear"
SeqOf(i) == sent[i].key[2]
TimePasses == sleepLeft' < sleepLeft

\* C1: a cycle dispatches an escalation iff the fetched delay is at least
\* the threshold and at least the watermark read at evaluation plus the delta.
C1_EscalateIff ==
    LET cond == delay >= Threshold /\ delay >= evalWatermark + Delta IN
    /\ CycleDone => (escInCycle = 1 <=> cond)
    /\ (pc \in {"generate", "sendEsc"} \/ escInCycle > 0) => cond

C1_Witness ==
    /\ CycleDone /\ escInCycle = 1 /\ evalWatermark > 0
    /\ delay >= evalWatermark + Delta

\* C2: a cycle dispatches an all-clear iff hasNotifiedOverThreshold was true
\* and the fetched delay was below the threshold; once it is sent the flag is
\* false and the watermark 0.
C2_ClearIff ==
    LET cond == evalHasNotified /\ delay < Threshold IN
    /\ CycleDone => (clearInCycle = 1 <=> cond)
    /\ (pc = "sendClear" \/ clearInCycle > 0) => cond
    /\ (CycleDone /\ clearInCycle = 1) =>
           (~hasNotifiedOverThreshold /\ highestNotifiedDelayMinutes = 0)

C2_Witness == CycleDone /\ clearInCycle = 1 /\ sleepLeft = BaseMs

\* C3: no cycle sends more than one notification, escalation or all-clear.
C3_AtMostOnePerCycle == escInCycle + clearInCycle <= 1

\* an escalation cycle during which routeRestarted was delivered (the watermark
\* was set when line 122 ran, the signal came before the send committed)
C3_Witness ==
    /\ CycleDone /\ escInCycle = 1 /\ clearInCycle = 0
    /\ evalWatermark > 0 /\ sent[Len(sent)].restarted

\* C4 as stated: of any two consecutive escalations the later reports a delay
\* of at least the earlier one's plus notifyDeltaMinutes.
C4_Original ==
    \A i, j \in 1..Len(sent) :
        (i < j /\ IsEsc(i) /\ IsEsc(j) /\ \A k \in (i+1)..(j-1) : ~IsEsc(k))
            => sent[j].delay >= sent[i].delay + Delta

\* C4 amended: two escalations sent one after the other, with no all-clear
\* sent and no routeRestarted applied between them, differ by at least
\* notifyDeltaMinutes.
C4_DeltaBetweenEscalations ==
    \A i \in 1..(Len(sent) - 1) :
        (IsEsc(i) /\ IsEsc(i + 1) /\ ~sent[i + 1].restarted)
            => sent[i + 1].delay >= sent[i].delay + Delta

C4_Witness ==
    /\ Len(sent) >= 2 /\ IsEsc(1) /\ IsEsc(2) /\ ~sent[2].restarted
    /\ sent[2].delay >= sent[1].delay + Delta

\* C5: every all-clear directly follows an escalation in the order of sent
\* notifications: none before the first escalation, no two in a row.
C5_OneClearPerEpisode ==
    \A i \in 1..Len(sent) : IsClear(i) => (i > 1 /\ IsEsc(i - 1))

\* a cycle below the threshold right after an all-clear sends nothing
C5_Witness ==
    /\ Len(sent) >= 2 /\ IsClear(Len(sent))
    /\ CycleDone /\ delay < Threshold /\ clearInCycle = 0

\* C6 (state part): every sent notification carries the key deliveryId-n,
\* n >= 1 and strictly increasing along the log; the key of a dispatch in
\* flight is built from the already incremented notificationSequence and is
\* above every earlier one.
C6_KeysOrdered ==
    /\ \A i \in 1..Len(sent) :
          /\ sent[i].key = KeyOf(SeqOf(i))
          /\ SeqOf(i) >= 1 /\ SeqOf(i) <= notificationSequence
    /\ \A i, j \in 1..Len(sent) : i < j => SeqOf(i) < SeqOf(j)
    /\ pc \in {"sendEsc", "sendClear"} =>
          /\ idempotencyKey = KeyOf(notificationSequence)
          /\ \A i \in 1..Len(sent) : SeqOf(i) < notificationSequence

\* C6: idempotency keys are unique and strictly increasing, and
\* notificationSequence starts at 0 and never decreases or resets.
C6_KeysIncreasing ==
    /\ notificationSequence = 0
    /\ [](C6_KeysOrdered)
    /\ [][notificationSequence' >= notificationSequence]_vars

C6_Witness ==
    /\ Len(sent) = 3 /\ IsClear(2)
    /\ SeqOf(1) = 1 /\ SeqOf(2) = 2 /\ SeqOf(3) = 3

\* what Scenario A has sent after k of its cycles
ScenarioASent(k) ==
    LET e1 == [kind |-> "escalation", delay |-> 35, key |-> KeyOf(1), restarted |-> FALSE]
        e2 == [kind |-> "escalation", delay |-> 50, key |-> KeyOf(2), restarted |-> FALSE]
        c3 == [kind |-> "clear", delay |-> 20, key |-> KeyOf(3), restarted |-> FALSE]
    IN CASE k = 0 -> << >>
         [] k \in {1, 2} -> <<e1>>
         [] k = 3 -> <<e1, e2>>
         [] k = 4 -> <<e1, e2, c3>>

\* C7: Scenario A (threshold 30, delta 10, no signals, delays 35, 38, 50, 20)
\* sends an escalation at 35 with sequence 1, nothing at 38, an escalation at
\* 50 with sequence 2 and an all-clear at 20 with sequence 3.
C7_ScenarioA ==
    (scenA >= 1 /\ CycleDone) => sent = ScenarioASent(scenA)

C7_Witness == scenA = 4 /\ CycleDone /\ Len(sent) = 3

C9_CheckNowSkipsWaits ==
    [][checkNowPending => ~TimePasses]_vars

\* C10: Scenario B, snooze(5) then checkNow during one base sleep: the next
\* cycle starts without further waiting and that snooze is never slept.
C10_ScenarioB ==
    [][(scenB = 2) =>
          /\ checkNowPending => ~TimePasses
          /\ ~(pc # "sleepSnooze" /\ pc' = "sleepSnooze")]_vars

\* C11: no failure of a collaborator ends the instance: a failed cycle is
\* given up and the loop goes on to later cycles.
C11_FailureNotFatal == pc # "failed"

\* C12: a step of the loop changes highestNotifiedDelayMinutes or
\* hasNotifiedOverThreshold only together with a dispatch that succeeded (the
\* only other writer is the routeRestarted signal); a step on which an
\* activity fails leaves both as they were.
C12_CommitAfterDispatch ==
    [][/\ (highestNotifiedDelayMinutes' # highestNotifiedDelayMinutes
             \/ hasNotifiedOverThreshold' # hasNotifiedOverThreshold)
          => \/ Len(sent') = Len(sent) + 1
             \/ /\ pc' = pc
                /\ highestNotifiedDelayMinutes' = 0
                /\ hasNotifiedOverThreshold' = hasNotifiedOverThreshold
       /\ (pc' = "failed" /\ pc # "failed")
          => /\ highestNotifiedDelayMinutes' = highestNotifiedDelayMinutes
             /\ hasNotifiedOverThreshold' = hasNotifiedOverThreshold]_vars

\* the escalation's dispatch failed: sequence used, nothing committed
C12_Witness ==
    /\ pc = "failed" /\ failedAt = "sendEsc"
    /\ notificationSequence = Len(sent) + 1
    /\ ~hasNotifiedOverThreshold /\ highestNotifiedDelayMinutes = 0 /\ delay > 0

\* a step on which an all-clear was sent
ClearSent == Len(sent') = Len(sent) + 1 /\ sent'[Len(sent')].kind = "clear"
\* a step on which a signal handler ran and wiped the watermark's history
RestartApplied == pc' = pc /\ restartedSinceEval' /\ ~restartedSinceEval

\* C13: every step that lowers highestNotifiedDelayMinutes is an all-clear
\* or a routeRestarted and sets it to 0, and every all-clear and every
\* routeRestarted leaves it at 0.
C13_WatermarkLowering ==
    [][/\ highestNotifiedDelayMinutes' < highestNotifiedDelayMinutes
          => /\ highestNotifiedDelayMinutes' = 0
             /\ ClearSent \/ pc' = pc
       /\ (ClearSent \/ RestartApplied) => highestNotifiedDelayMinutes' = 0]_vars

\* C14: hasNotifiedOverThreshold is true exactly when a notification has
\* been sent and the last one sent is an escalation; it is false before the
\* first cycle.
C14_FlagIffEscalatedNotCleared ==
    /\ hasNotifiedOverThreshold <=> (Len(sent) > 0 /\ IsEsc(Len(sent)))
    /\ pc \in {"notStarted", "rejected", "start"} => ~hasNotifiedOverThreshold

C14_Witness ==
    /\ hasNotifiedOverThreshold /\ Len(sent) = 3 /\ IsClear(2) /\ IsEsc(3)

\* floor of a number of tenths, by its defining property
FloorOfTenths(t) == CHOOSE m \in -10..10 : 10 * m <= t /\ t < 10 * m + 10
\* max(0, floor(minutes) * 60000)
ExpectedSnoozeMs(t) ==
    IF FloorOfTenths(t) * 60000 > 0 THEN FloorOfTenths(t) * 60000 ELSE 0

\* the same, tabulated over the arguments a snooze may carry (0: none pending)
ExpectedMs == [t \in SnoozeTenths \cup {0} |-> ExpectedSnoozeMs(t)]

\* C15: a pending snooze is max(0, floor(minutes) * 60000) of the last snooze
\* signal delivered, whatever was pending before, and is never negative.
C15_SnoozeLastWriteWins ==
    snoozeSleepMs # Null =>
        /\ snoozeSleepMs = ExpectedMs[lastSnoozeTenths]
        /\ snoozeSleepMs >= 0

\* snooze(-1.5) delivered in the base sleep: clamped to 0
C15_Witness ==
    /\ pc = "sleepBase" /\ lastSnoozeTenths = -15 /\ snoozeSleepMs = 0

\* delivering a then b leaves the fields as delivering b then a
Commute(a, b) ==
    Handle(Handle(SignalFields, a), b) = Handle(Handle(SignalFields, b), a)

\* C16 as stated: any two signals may be delivered in either order with the
\* same resulting fields.
C16_Original == \A a, b \in Signals : Commute(a, b)

\* C16 amended: two signals may be delivered in either order with the same
\* resulting fields unless both are snoozes that set different durations.
C16_HandlersCommute ==
    \A a, b \in Signals :
        ~(a.name = "snooze" /\ b.name = "snooze"
            /\ ExpectedMs[a.tenths] # ExpectedMs[b.tenths])
        => Commute(a, b)

\* all three kinds of signal were delivered before the coming cycle read
C16_Witness ==
    /\ pc = "sleepBase" /\ sleepLeft = 0
    /\ snoozeSleepMs = ExpectedSnoozeMs(50) /\ shouldCheckNow /\ restartedSinceEval
    /\ highestNotifiedDelayMinutes = 0 /\ hasNotifiedOverThreshold

\* C17: a routeRestarted delivered since the last evaluation is what the
\* next evaluation reads (the watermark stays 0 until then), and a checkNow
\* delivered is still set until the next fetch starts.
C17_SignalsVisibleToNextCycle ==
    /\ restartedSinceEval => highestNotifiedDelayMinutes = 0
    /\ (checkNowPending /\ Running) => shouldCheckNow

\* C18: while every fetched delay has been below the threshold, nothing has
\* been sent or is being sent, the watermark is 0, the flag false and the
\* sequence 0.
C18_NeverCrossedNothingSent ==
    allBelow =>
        /\ sent = << >> /\ notificationSequence = 0
        /\ highestNotifiedDelayMinutes = 0 /\ ~hasNotifiedOverThreshold
        /\ pc \notin {"generate", "sendEsc", "sendClear"}

\* a cycle below the threshold has run, with signals of all kinds delivered
C18_Witness ==
    /\ allBelow /\ CycleDone /\ delay > 0 /\ delay < Threshold
    /\ restartedSinceEsc /\ lastSnoozeTenths # 0 /\ checkNowPending

\* C19: under a valid configuration the first cycle whose fetched delay is at
\* or above the threshold sends an escalation.
C19_FirstCrossingReported ==
    (CycleDone /\ firstCross /\ Threshold > 0 /\ Delta > 0) => escInCycle = 1

\* C20: no workflow runs under a configuration the start schema refuses.
C20_InvalidConfigRejected ==
    pc \notin {"notStarted", "rejected"} => SchemaAccepts(args)

\* C21: the instance has no terminal state except external cancellation:
\* every step on which a running instance stops running is its cancellation.
C21_OnlyCancellationEnds ==
    [][(Running /\ ~Running') => pc' = "cancelled"]_vars

\* a step on which the loop starts the sleep of a snooze
SnoozeSleepStarts == pc # "sleepSnooze" /\ pc' = "sleepSnooze"
\* a step on which the sleep of a snooze ends and the traffic fetch starts
SnoozeSleepEnds == pc = "sleepSnooze" /\ pc' = "fetch"

\* the pending snooze is consumed when its sleep starts: it was set by a
\* snooze signal not slept before, checkNow was not requested, the field is
\* cleared and the sleep lasts exactly the pending duration
SnoozeConsumed ==
    SnoozeSleepStarts =>
        /\ snoozeSleepMs # Null /\ ~shouldCheckNow
        /\ lastSnoozeTenths # 0 /\ lastSnoozeTenths' = 0
        /\ snoozeSleepMs' = Null
        /\ sleepLeft' = snoozeSleepMs

\* C22: a snooze is consumed when its sleep starts and is never slept twice;
\* the sleep ends when its whole duration has elapsed or a checkNow was
\* delivered during it, never earlier by time alone; and a checkNow delivered
\* during it cuts it short, no more of it being slept.
C22_SnoozeOneShot ==
    [][/\ SnoozeConsumed
       /\ SnoozeSleepEnds => (sleepLeft = 0 \/ shouldCheckNow)
       /\ (pc = "sleepSnooze" /\ shouldCheckNow) => ~TimePasses]_vars

\* what the handler of sig leaves alone among the fields handlers can write
FrameOf(sig) ==
    LET g == Handle(SignalFields, sig) IN
    CASE sig.name = "routeRestarted" ->
             /\ g.snoozeSleepMs = snoozeSleepMs
             /\ g.shouldCheckNow = shouldCheckNow
      [] sig.name = "snooze" ->
             /\ g.highestNotifiedDelayMinutes = highestNotifiedDelayMinutes
             /\ g.shouldCheckNow = shouldCheckNow
      [] sig.name = "checkNow" ->
             /\ g.highestNotifiedDelayMinutes = highestNotifiedDelayMinutes
             /\ g.snoozeSleepMs = snoozeSleepMs
\* a step on which a signal handler ran: the loop stays suspended where it
\* is, no time passes and no activity is re-run
SignalStep == pc' = pc /\ sleepLeft' = sleepLeft /\ retried' = retried

\* C23: run in any reachable state, routeRestarted leaves pendingSnoozeMs and
\* checkNowRequested as they are, snooze leaves the watermark and
\* checkNowRequested, checkNow leaves the watermark and pendingSnoozeMs; and a
\* step on which a handler runs is the effect of one handler on these fields,
\* changes neither hasNotifiedOverThreshold nor notificationSequence, sends
\* nothing and calls no collaborator.
C23_HandlerFrame ==
    /\ [](\A sig \in Signals : FrameOf(sig))
    /\ [][SignalStep =>
             /\ \E sig \in Signals : FieldsBecome(Handle(SignalFields, sig))
             /\ UNCHANGED <<args, hasNotifiedOverThreshold, notificationSequence,
                            delay, idempotencyKey, sent>>]_vars

\* routeRestarted was delivered after the second escalation while a snooze
\* and a checkNow were pending: only the watermark is gone
C23_Witness ==
    /\ pc = "fetch" /\ restartedSinceEsc /\ highestNotifiedDelayMinutes = 0
    /\ hasNotifiedOverThreshold /\ notificationSequence = 2
    /\ snoozeSleepMs = SnoozeMs(50) /\ shouldCheckNow

\* C24: in every state the loop can be suspended in, a false
\* hasNotifiedOverThreshold comes with a watermark of 0, and a true one, no
\* routeRestarted having been applied since the last escalation, with a
\* watermark of at least thresholdMinutes and at least notifyDeltaMinutes.
C24_WatermarkAndFlag ==
    /\ ~hasNotifiedOverThreshold => highestNotifiedDelayMinutes = 0
    /\ (hasNotifiedOverThreshold /\ ~restartedSinceEsc) =>
           /\ highestNotifiedDelayMinutes >= Threshold
           /\ highestNotifiedDelayMinutes >= Delta

\* notified at 50 under a delta above the threshold, then cleared and
\* notified again: the watermark is back at 50
C24_Witness ==
    /\ CycleDone /\ hasNotifiedOverThreshold /\ ~restartedSinceEsc
    /\ Delta > Threshold /\ highestNotifiedDelayMinutes = 50
    /\ Len(sent) = 3 /\ IsClear(2)

\* the pending snooze changes only when its sleep starts (to unset) or a
\* snooze signal overwrites it
SnoozeKeptUntilSlept ==
    snoozeSleepMs' # snoozeSleepMs =>
        \/ SnoozeSleepStarts /\ snoozeSleepMs' = Null
        \/ SignalStep /\ snoozeSleepMs' # Null
\* a cycle that starts after the base sleep with a snooze pending and no
\* checkNow requested sleeps exactly that snooze before it fetches
PendingSnoozeSlept ==
    (pc = "sleepBase" /\ pc' # "sleepBase" /\ Running'
        /\ snoozeSleepMs # Null /\ ~shouldCheckNow)
    => (SnoozeSleepStarts /\ sleepLeft' = snoozeSleepMs)

\* C25: a snooze skipped at a cycle start because checkNow was requested is
\* still pending afterwards: the field changes only when its sleep starts or
\* a snooze signal overwrites it, and the cycle that follows the base sleep,
\* no checkNow being requested, sleeps exactly that snooze before it fetches.
C25_SkippedSnoozeKept ==
    /\ [](scenB = 2 => snoozeSleepMs = SnoozeMs(50))
    /\ [][SnoozeKeptUntilSlept /\ PendingSnoozeSlept]_vars

\* snooze(5) then checkNow in one base sleep: the checkNow cycle skipped the
\* snooze, the next cycle slept its 5 minutes and is about to fetch
C25_Witness ==
    /\ scenB = 3 /\ pc = "sleepSnooze" /\ sleepLeft = 0
    /\ snoozeSleepMs = Null /\ ~shouldCheckNow

\* the awaits of sendNotificationEmail
SendAwaits == {"sendEsc", "sendClear"}

\* C26: notificationSequence is the number of dispatches the workflow has
\* made, delivered or not, and at least the number of notifications sent; a
\* failed dispatch does not give its number back; and while a dispatch is in
\* flight, host retries included, its key and the sequence stay as they are.
C26_SequenceCountsDispatches ==
    /\ [](/\ notificationSequence = dispatched
          /\ notificationSequence >= Len(sent)
          /\ pc \in SendAwaits => idempotencyKey = KeyOf(dispatched))
    /\ [][(pc \in SendAwaits /\ pc' \in {pc, "failed"})
             => UNCHANGED <<notificationSequence, idempotencyKey>>]_vars

\* the third dispatch was retried by the host and then failed: two
\* notifications sent, the sequence stays at 3
C26_Witness ==
    /\ pc = "failed" /\ failedAt = "sendClear" /\ retried
    /\ notificationSequence = 3 /\ Len(sent) = 2
====
